---- MODULE Spec2Model ----
(***************************************************************************)
(* Model of thingsboard_connector.py: the two telemetry connectors         *)
(* Http_Connector and Mqtt_Connector, their key/value buffer, and the      *)
(* background threads started by send_telemetry.                           *)
(*                                                                         *)
(* Python objects are records [type, val]: `type` is what type(x) returns  *)
(* and `val` distinguishes objects of one type.  A dict is a function from *)
(* a finite set of key objects to value objects.  self.data is a REFERENCE *)
(* to a dict object: `heap` maps object ids to dict contents and `data` is *)
(* the id self.data currently refers to, so that a thread started with     *)
(* args=(..., self.data, ...) shares the object with the connector.        *)
(***************************************************************************)
EXTENDS Integers, Sequences, FiniteSets, TLC

VARIABLES
    conn,       \* class of the object under construction: "none", "http", "mqtt"
    phase,      \* "new" (before __init__), "ready" (constructed), "failed" (__init__ raised)
    self,       \* [host, port, access_token]: the identity fields of the connector
    debug,      \* self.debug
    data,       \* self.data: the id of the dict object the buffer refers to
    heap,       \* object id -> contents of that dict object
    session,    \* state of self.client: "Disconnected", "Connected", "Failed"
    connects,   \* number of client.connect calls made so far
    threads,    \* thread id -> state of the Thread returned by send_telemetry
    wire,       \* thread ids in the order their requests.post / client.publish was called
    last        \* the caller's last completed call: its name, arguments and exception

vars == <<conn, phase, self, debug, data, heap, session, connects, threads, wire, last>>

-----------------------------------------------------------------------------
(* Bounds *)

MaxSends == 2

ThreadIds == 1..MaxSends
\* one object for self.data, one per thread still holding an old buffer, one to allocate
ObjIds == 1..(MaxSends + 2)

-----------------------------------------------------------------------------
(* Python values *)

Obj(t, v) == [type |-> t, val |-> v]

NoObj == Obj("NoneType", 0)

EmptyDict == [k \in {} |-> NoObj]

\* "powerFactor", "voltage" and the non-string key 7
K1 == Obj("str", 1)
K2 == Obj("str", 2)
KInt == Obj("int", 7)

StrKeys == {K1, K2}
Keys == StrKeys \cup {KInt}

\* 220, 0.75, "on", True and the non-scalar [1]
VInt == Obj("int", 220)
VFloat == Obj("float", 75)
VStr == Obj("str", 3)
VBool == Obj("bool", 1)
VList == Obj("list", 1)

ScalarValues == {VInt, VFloat, VStr, VBool}
Values == ScalarValues \cup {VList}

\* every dict over a set of keys and a set of values
DictsOver(ks, vs) == UNION {[d -> vs] : d \in SUBSET ks}

\* an argument of set_multiple_data: a dict object, or an object of another type
DictArg(f) == [type |-> "dict", items |-> f]
ListArg == [type |-> "list", items |-> EmptyDict]
NoArg == [type |-> "NoneType", items |-> EmptyDict]

Mappings == {DictArg(f) : f \in DictsOver(Keys, Values)} \cup {ListArg}

\* arguments of the constructors: "thingsboard.cloud" or 10; "80", 1883 or True;
\* "test_c2t3" or None
Hosts == {Obj("str", 10), Obj("int", 10)}
Ports == {Obj("str", 80), Obj("int", 1883), Obj("bool", 1)}
Tokens == {Obj("str", 20), NoObj}

\* what client.connect(host, port, 60) does: returns a result code (0 is success,
\* 1..5 are the refusals the constructor names, 6 stands for any other code) or raises
ConnectOutcomes == {[raised |-> FALSE, rc |-> r] : r \in 0..6} \cup {[raised |-> TRUE, rc |-> 0]}

\* the smaller universe used when threads are in flight
SendKeys == {K1}
SendValues == {VInt, VStr}
SendMappings == {DictArg(EmptyDict), DictArg(K1 :> VStr)}

-----------------------------------------------------------------------------
(* Helpers *)

\* type(value) is int, float, str or bool
IsScalar(v) == v.type \in {"int", "float", "str", "bool"}

\* (mutant) the assignment replaces the whole dict by the one entry
DictSetAlone(d, k, v) == [x \in {k} |-> v]

\* d[k] = v
DictSet(d, k, v) == [x \in (DOMAIN d) \cup {k} |-> IF x = k THEN v ELSE d[x]]

\* (mutant) the deletion empties the dict
DictDelClear(d, k) == [x \in {} |-> NoObj]

\* del d[k]
DictDel(d, k) == [x \in (DOMAIN d) \ {k} |-> d[x]]

\* a completed call: the method, its positional arguments, its mapping argument
\* (set_multiple_data) and the exception it raised ("none" when it returned)
Call(op, args, m, err) == [op |-> op, args |-> args, m |-> m, err |-> err]

\* What a thread hands to its transport, the body apart: the method, the parts the
\* address is put together from, the headers and the time stamp of the envelope.
NoRequest == [method |-> "none", scheme |-> "", host |-> NoObj, port |-> NoObj, path |-> "",
              credential |-> NoObj, resource |-> "", headers |-> "", ts |-> NoObj]

\* requests.post('http://' + host + ':' + port + '/api/v1/' + access_token + '/telemetry',
\*               headers={'Content-Type': 'application/json'}, json=data)
HttpRequest(host, port, access_token) ==
    [method |-> "POST", scheme |-> "http://", host |-> host, port |-> port, path |-> "/api/v1/",
     credential |-> access_token, resource |-> "/telemetry",
     headers |-> "Content-Type: application/json", ts |-> NoObj]

\* time.time(): a float, here in tenths of a second; int(x) drops the fraction
TimeNow == Obj("float", 15)
PyInt(x) == Obj("int", x.val \div 10)

\* client.publish('v1/devices/me/telemetry', json.dumps({"ts": int(time.time()), "values": data}))
\* on the client the constructor made: no address is built by the thread
MqttRequest(now) ==
    [method |-> "PUBLISH", scheme |-> "", host |-> NoObj, port |-> NoObj, path |-> "",
     credential |-> NoObj, resource |-> "v1/devices/me/telemetry", headers |-> "",
     ts |-> PyInt(now)]

\* a Thread: where it is, the arguments it was started with (the dict object `ref`
\* and the debug flag), the buffer contents when it was started, the body handed to
\* the transport while the transport call runs, the rest of what it handed to the
\* transport, what the transport call did, what the thread printed, and whether it
\* died of an exception nothing caught
NoThread == [pc |-> "none", ref |-> 0, debug |-> FALSE, atcall |-> EmptyDict,
             payload |-> EmptyDict, request |-> NoRequest, outcome |-> "none", out |-> {},
             uncaught |-> FALSE]

\* the objects something still refers to
Referenced(d, th) == ({d} \cup {th[t].ref : t \in ThreadIds}) \ {0}

\* Object ids are names only.  After every step that changes who refers to what, the
\* objects are renamed: self.data is object 1, and the old buffers that threads still
\* hold follow, in the order of the first thread holding each.  Renaming changes no
\* contents and no sharing; objects nothing refers to are dropped.
Holders(o, th) == {t \in ThreadIds : th[t].ref = o}
First(o, th) == CHOOSE t \in Holders(o, th) : \A u \in Holders(o, th) : t <= u
NewId(o, d, th) ==
    IF o = d THEN 1
    ELSE 1 + Cardinality({p \in Referenced(d, th) \ {d} : First(p, th) <= First(o, th)})

Renamed(h, d, th) ==
    [data |-> 1,
     heap |-> [i \in ObjIds |->
                  IF \E o \in Referenced(d, th) : NewId(o, d, th) = i
                  THEN h[CHOOSE o \in Referenced(d, th) : NewId(o, d, th) = i]
                  ELSE EmptyDict],
     threads |-> [t \in ThreadIds |->
                  IF th[t].ref = 0 THEN th[t] ELSE [th[t] EXCEPT !.ref = NewId(@, d, th)]]]

\* the id of a dict object that nothing referred to before
FreshId == CHOOSE o \in ObjIds : o \notin Referenced(data, threads)

\* (mutant) self.data.update(data): the entries are merged into the old buffer
RebindUpdate(contents) ==
    /\ heap' = [heap EXCEPT ![data] =
                   [x \in (DOMAIN @) \cup (DOMAIN contents) |->
                       IF x \in DOMAIN contents THEN contents[x] ELSE @[x]]]
    /\ UNCHANGED <<data, threads>>

\* (mutant) self.data.clear(); self.data.update(data): the old buffer object is
\* kept and takes the new contents
RebindInPlace(contents) ==
    /\ heap' = [heap EXCEPT ![data] = contents]
    /\ UNCHANGED <<data, threads>>

\* self.data = <a dict object with these contents that the caller made>
Rebind(contents) ==
    LET r == Renamed([heap EXCEPT ![FreshId] = contents], FreshId, threads)
    IN  /\ data' = r.data
        /\ heap' = r.heap
        /\ threads' = r.threads

\* thread t has read its dict object for the last time and lets go of it
Release(th) ==
    LET r == Renamed(heap, data, th)
    IN  /\ data' = r.data
        /\ heap' = r.heap
        /\ threads' = r.threads

Running == phase = "ready"

-----------------------------------------------------------------------------
Init ==
    /\ conn = "none"
    /\ phase = "new"
    /\ self = [host |-> NoObj, port |-> NoObj, access_token |-> NoObj]
    /\ debug = FALSE
    /\ data = 1
    /\ heap = [o \in ObjIds |-> EmptyDict]
    /\ session = "Disconnected"
    /\ connects = 0
    /\ threads = [t \in ThreadIds |-> NoThread]
    /\ wire = << >>
    /\ last = Call("none", << >>, NoArg, "none")

-----------------------------------------------------------------------------
(* Http_Connector *)

HttpConstruct(host, port, access_token, dbg) ==
    /\ phase = "new"
    /\ conn' = "http"
    /\ IF host.type # "str" \/ port.type # "str" \/ access_token.type # "str"
       THEN /\ phase' = "failed"
            /\ last' = Call("__init__", <<host, port, access_token>>, NoArg, "ValueError")
            /\ UNCHANGED <<self, debug, data, heap>>
       ELSE /\ phase' = "ready"
            /\ debug' = dbg
            /\ data' = 1
            /\ heap' = [o \in ObjIds |-> EmptyDict]
            /\ self' = [host |-> host, port |-> port, access_token |-> access_token]
            /\ last' = Call("__init__", <<host, port, access_token>>, NoArg, "none")
    /\ UNCHANGED <<session, connects, threads, wire>>

HttpEnableDebug ==
    /\ Running /\ conn = "http"
    /\ debug' = TRUE
    /\ last' = Call("enable_debug", << >>, NoArg, "none")
    /\ UNCHANGED <<conn, phase, self, data, heap, session, connects, threads, wire>>

HttpDisableDebug ==
    /\ Running /\ conn = "http"
    /\ debug' = FALSE
    /\ last' = Call("disable_debug", << >>, NoArg, "none")
    /\ UNCHANGED <<conn, phase, self, data, heap, session, connects, threads, wire>>

\* self.data[key] = value, with no validation
HttpSetSingleData(key, value) ==
    /\ Running /\ conn = "http"
    /\ heap' = [heap EXCEPT ![data] = DictSet(@, key, value)]
    /\ last' = Call("set_single_data", <<key, value>>, NoArg, "none")
    /\ UNCHANGED <<conn, phase, self, debug, data, session, connects, threads, wire>>

\* self.data = data, with no validation: the buffer now refers to the caller's dict.
\* The argument is a dict, as the docstring asks; nothing in the method checks it.
HttpSetMultipleData(m) ==
    /\ Running /\ conn = "http"
    /\ m.type = "dict"
    /\ Rebind(m.items)
    /\ last' = Call("set_multiple_data", << >>, m, "none")
    /\ UNCHANGED <<conn, phase, self, debug, session, connects, wire>>

-----------------------------------------------------------------------------
(* Mqtt_Connector *)

\* (mutant) not isinstance(port, int): True and False pass, bool being a subclass of int
MqttBadPortIsInstance(port) == port.type \notin {"int", "bool"}

\* type(port) is not int
MqttBadPort(port) == port.type # "int"

MqttConstruct(host, port, access_token, dbg, outcome) ==
    /\ phase = "new"
    /\ conn' = "mqtt"
    /\ IF host.type # "str" \/ MqttBadPort(port) \/ access_token.type # "str"
       THEN /\ phase' = "failed"
            /\ last' = Call("__init__", <<host, port, access_token>>, NoArg, "ValueError")
            /\ UNCHANGED <<self, debug, data, heap, session, connects>>
       ELSE /\ phase' = "ready"
            /\ debug' = dbg
            /\ data' = 1
            /\ heap' = [o \in ObjIds |-> EmptyDict]
            /\ self' = [host |-> host, port |-> port, access_token |-> access_token]
            \* response = self.client.connect(self.host, self.port, 60), inside try
            /\ connects' = connects + 1
            /\ session' = IF ~outcome.raised /\ outcome.rc = 0 THEN "Connected" ELSE "Failed"
            /\ last' = Call("__init__", <<host, port, access_token>>, NoArg, "none")
    /\ UNCHANGED <<threads, wire>>

MqttEnableDebug ==
    /\ Running /\ conn = "mqtt"
    /\ debug' = TRUE
    /\ last' = Call("enable_debug", << >>, NoArg, "none")
    /\ UNCHANGED <<conn, phase, self, data, heap, session, connects, threads, wire>>

MqttDisableDebug ==
    /\ Running /\ conn = "mqtt"
    /\ debug' = FALSE
    /\ last' = Call("disable_debug", << >>, NoArg, "none")
    /\ UNCHANGED <<conn, phase, self, data, heap, session, connects, threads, wire>>

MqttSetSingleData(key, value) ==
    /\ Running /\ conn = "mqtt"
    /\ IF key.type # "str" \/ ~IsScalar(value)
       THEN /\ last' = Call("set_single_data", <<key, value>>, NoArg, "ValueError")
            /\ UNCHANGED heap
       ELSE /\ heap' = [heap EXCEPT ![data] = DictSet(@, key, value)]
            /\ last' = Call("set_single_data", <<key, value>>, NoArg, "none")
    /\ UNCHANGED <<conn, phase, self, debug, data, session, connects, threads, wire>>

\* (mutant) the loop checks the keys and forgets the values
MqttValidMappingKeysOnly(m) ==
    /\ m.type = "dict"
    /\ \A k \in DOMAIN m.items : k.type = "str"

\* the validation loop of set_multiple_data: every key a str, every value a scalar
MqttValidMapping(m) ==
    /\ m.type = "dict"
    /\ \A k \in DOMAIN m.items : k.type = "str" /\ IsScalar(m.items[k])

MqttSetMultipleData(m) ==
    /\ Running /\ conn = "mqtt"
    /\ IF ~MqttValidMapping(m)
       THEN /\ last' = Call("set_multiple_data", << >>, m, "ValueError")
            /\ UNCHANGED <<data, heap, threads>>
       ELSE /\ Rebind(m.items)
            /\ last' = Call("set_multiple_data", << >>, m, "none")
    /\ UNCHANGED <<conn, phase, self, debug, session, connects, wire>>

MqttRemoveData(key) ==
    /\ Running /\ conn = "mqtt"
    /\ IF key.type # "str"
       THEN /\ last' = Call("remove_data", <<key>>, NoArg, "ValueError")
            /\ UNCHANGED heap
       ELSE IF key \notin DOMAIN heap[data]
       THEN /\ last' = Call("remove_data", <<key>>, NoArg, "KeyError")
            /\ UNCHANGED heap
       ELSE /\ heap' = [heap EXCEPT ![data] = DictDel(@, key)]
            /\ last' = Call("remove_data", <<key>>, NoArg, "none")
    /\ UNCHANGED <<conn, phase, self, debug, data, session, connects, threads, wire>>

\* def remove_all_data(self, data): the call binds exactly one positional argument;
\* with any other number of arguments Python raises TypeError before the body runs
MqttRemoveAllData(args) ==
    /\ Running /\ conn = "mqtt"
    /\ IF Len(args) # 1
       THEN /\ last' = Call("remove_all_data", args, NoArg, "TypeError")
            /\ UNCHANGED <<data, heap, threads>>
       ELSE /\ Rebind(EmptyDict)
            /\ last' = Call("remove_all_data", args, NoArg, "none")
    /\ UNCHANGED <<conn, phase, self, debug, session, connects, wire>>

\* the argument lists remove_all_data is called with: none, or one object
RemoveAllArgs == {<< >>, <<NoObj>>}

-----------------------------------------------------------------------------
(* The buffer operations alone, over every key, value and mapping *)

NextBuf ==
    \/ \E h \in Hosts, p \in Ports, a \in Tokens, d \in BOOLEAN : HttpConstruct(h, p, a, d)
    \/ \E h \in Hosts, p \in Ports, a \in Tokens, d \in BOOLEAN, o \in ConnectOutcomes :
          MqttConstruct(h, p, a, d, o)
    \/ HttpEnableDebug
    \/ HttpDisableDebug
    \/ \E k \in Keys, v \in Values : HttpSetSingleData(k, v)
    \/ \E m \in Mappings : HttpSetMultipleData(m)
    \/ MqttEnableDebug
    \/ MqttDisableDebug
    \/ \E k \in Keys, v \in Values : MqttSetSingleData(k, v)
    \/ \E m \in Mappings : MqttSetMultipleData(m)
    \/ \E k \in Keys : MqttRemoveData(k)
    \/ \E a \in RemoveAllArgs : MqttRemoveAllData(a)

SpecBuf == Init /\ [][NextBuf]_vars

-----------------------------------------------------------------------------
(* send_telemetry and the threads it starts *)

\* the Thread object a send_telemetry call creates: the next unused thread id
NextThread == CHOOSE t \in ThreadIds : threads[t].pc = "none" /\ \A u \in 1..(t - 1) : threads[u].pc # "none"

CanSend == \E t \in ThreadIds : threads[t].pc = "none"

\* Thread(target=..., args=(..., self.data, ..., self.debug)); thread.start(); return thread
Spawn(d, dbg) == [pc |-> "spawned", ref |-> d, debug |-> dbg, atcall |-> heap[d],
                  payload |-> EmptyDict, request |-> NoRequest, outcome |-> "none", out |-> {},
                  uncaught |-> FALSE]

Handle(t) == Obj("Thread", t)

\* (mutant) the target is run by the caller (thread.run() for thread.start()): the
\* request has been made and answered when send_telemetry returns
HttpSendTelemetryInline ==
    /\ Running /\ conn = "http"
    /\ CanSend
    /\ threads' = [threads EXCEPT ![NextThread] =
                      [Spawn(data, debug) EXCEPT !.pc = "done", !.ref = 0, !.atcall = EmptyDict,
                                                 !.outcome = "200"]]
    /\ wire' = Append(wire, NextThread)
    /\ last' = Call("send_telemetry", <<Handle(NextThread)>>, NoArg, "none")
    /\ UNCHANGED <<conn, phase, self, debug, data, heap, session, connects>>

HttpSendTelemetry ==
    /\ Running /\ conn = "http"
    /\ CanSend
    /\ threads' = [threads EXCEPT ![NextThread] = Spawn(data, debug)]
    /\ last' = Call("send_telemetry", <<Handle(NextThread)>>, NoArg, "none")
    /\ UNCHANGED <<conn, phase, self, debug, data, heap, session, connects, wire>>

\* what requests.post does: a response with status 200 or another status, a
\* requests.exceptions.RequestException, or an exception of another class
HttpOutcomes == {"200", "404", "RequestException", "OtherException"}

\* (mutant) the status of the response is reported whatever the debug flag
HttpPrintedStatusAlways(dbg, outcome) ==
    CASE outcome = "200" -> IF dbg THEN {"response", "success"} ELSE {}
      [] outcome = "404" -> {"response", "error"}
      [] outcome = "RequestException" -> {"exception"}
      [] OTHER -> {}

\* what the thread prints after requests.post returned or raised
HttpPrinted(dbg, outcome) ==
    CASE outcome = "200" -> IF dbg THEN {"response", "success"} ELSE {}
      [] outcome = "404" -> IF dbg THEN {"response", "error"} ELSE {}
      [] outcome = "RequestException" -> {"exception"}
      [] OTHER -> {}

\* only requests.exceptions.RequestException is caught by _send_telemetry_thread
HttpUncaught(outcome) == outcome = "OtherException"

\* (mutant) the thread hands the request to a background worker and finishes; the
\* worker makes the request at some later time
HttpPostDetached(t) ==
    /\ conn = "http"
    /\ \/ /\ threads[t].pc = "spawned"
          /\ Release([threads EXCEPT ![t].pc = "done",
                                      ![t].atcall = EmptyDict,
                                      ![t].outcome = "200",
                                      ![t].ref = 0])
          /\ wire' = wire
       \/ /\ threads[t].pc = "done"
          /\ \A i \in 1..Len(wire) : wire[i] # t
          /\ wire' = Append(wire, t)
          /\ UNCHANGED <<data, heap, threads>>
    /\ UNCHANGED <<conn, phase, self, debug, session, connects, last>>

\* the thread runs up to the call of requests.post(url, headers=headers, json=data):
\* the body is the contents of the dict object it was given, as they are now; the
\* thread does not read the object again
HttpPost(t) ==
    /\ conn = "http"
    /\ threads[t].pc = "spawned"
    /\ Release([threads EXCEPT ![t].pc = "sending",
                                ![t].out = IF threads[t].debug THEN {"sending"} ELSE {},
                                ![t].payload = heap[threads[t].ref],
                                ![t].request = HttpRequest(self.host, self.port, self.access_token),
                                ![t].ref = 0])
    /\ wire' = Append(wire, t)
    /\ UNCHANGED <<conn, phase, self, debug, session, connects, last>>

\* (mutant) a request that raised RequestException is made again
HttpResponseRetry(t, outcome) ==
    /\ conn = "http"
    /\ threads[t].pc = "sending"
    /\ threads' = [threads EXCEPT ![t].pc = IF outcome = "RequestException" THEN "spawned" ELSE "done",
                                  ![t].ref = IF outcome = "RequestException" THEN data ELSE 0,
                                  ![t].atcall = EmptyDict,
                                  ![t].payload = EmptyDict,
                                  ![t].outcome = outcome,
                                  ![t].out = @ \cup HttpPrinted(threads[t].debug, outcome),
                                  ![t].uncaught = HttpUncaught(outcome)]
    /\ UNCHANGED <<conn, phase, self, debug, data, heap, session, connects, wire, last>>

\* requests.post returns or raises, and the thread runs to its end
HttpResponse(t, outcome) ==
    /\ conn = "http"
    /\ threads[t].pc = "sending"
    /\ threads' = [threads EXCEPT ![t].pc = "done",
                                  ![t].atcall = EmptyDict,
                                  ![t].payload = EmptyDict,
                                  ![t].outcome = outcome,
                                  ![t].out = @ \cup HttpPrinted(threads[t].debug, outcome),
                                  ![t].uncaught = HttpUncaught(outcome)]
    /\ UNCHANGED <<conn, phase, self, debug, data, heap, session, connects, wire, last>>

MqttSendTelemetry ==
    /\ Running /\ conn = "mqtt"
    /\ CanSend
    /\ threads' = [threads EXCEPT ![NextThread] = Spawn(data, debug)]
    /\ last' = Call("send_telemetry", <<Handle(NextThread)>>, NoArg, "none")
    /\ UNCHANGED <<conn, phase, self, debug, data, heap, session, connects, wire>>

\* what client.publish does: returns a queuing result (MQTT_ERR_SUCCESS,
\* MQTT_ERR_NO_CONN, MQTT_ERR_QUEUE_SIZE or another code) or raises
MqttOutcomes == {"SUCCESS", "NO_CONN", "QUEUE_SIZE", "UNKNOWN", "Exception"}

\* what the thread prints after client.publish returned or raised.  With debug, a
\* result that is neither success nor no-connection reaches the comparison with
\* mqtt.MQTT__ERR_QUEUE_SIZE, a name the module does not define: the AttributeError
\* is caught by `except Exception` and printed like any other exception.
MqttPrinted(dbg, outcome) ==
    CASE outcome = "Exception" -> {"exception"}
      [] outcome = "SUCCESS" -> IF dbg THEN {"success"} ELSE {}
      [] outcome = "NO_CONN" -> IF dbg THEN {"no_conn"} ELSE {}
      [] OTHER -> IF dbg THEN {"exception"} ELSE {}

\* `except Exception` catches whatever the body raises
MqttUncaught(outcome) == FALSE

\* (mutant) a thread that finds the session failed connects again before it publishes
MqttPublishReconnect(t) ==
    /\ conn = "mqtt"
    /\ threads[t].pc = "spawned"
    /\ Release([threads EXCEPT ![t].pc = "sending",
                                ![t].payload = heap[threads[t].ref],
                                ![t].ref = 0])
    /\ wire' = Append(wire, t)
    /\ connects' = IF session = "Failed" THEN connects + 1 ELSE connects
    /\ session' = IF session = "Failed" THEN "Connected" ELSE session
    /\ UNCHANGED <<conn, phase, self, debug, last>>

\* the thread runs up to the call of client.publish(topic, json.dumps({ts, values: data})):
\* the values are the contents of the dict object it was given, as they are now
MqttPublish(t) ==
    /\ conn = "mqtt"
    /\ threads[t].pc = "spawned"
    /\ Release([threads EXCEPT ![t].pc = "sending",
                                ![t].out = IF threads[t].debug THEN {"sending"} ELSE {},
                                ![t].payload = heap[threads[t].ref],
                                ![t].request = MqttRequest(TimeNow),
                                ![t].ref = 0])
    /\ wire' = Append(wire, t)
    /\ UNCHANGED <<conn, phase, self, debug, session, connects, last>>

\* (mutant) a publish that found no connection is tried again
MqttPublishReturnRetry(t, outcome) ==
    /\ conn = "mqtt"
    /\ threads[t].pc = "sending"
    /\ threads' = [threads EXCEPT ![t].pc = IF outcome = "NO_CONN" THEN "spawned" ELSE "done",
                                  ![t].ref = IF outcome = "NO_CONN" THEN data ELSE 0,
                                  ![t].payload = EmptyDict,
                                  ![t].outcome = outcome]
    /\ UNCHANGED <<conn, phase, self, debug, data, heap, session, connects, wire, last>>

\* client.publish returns or raises, and the thread runs to its end
MqttPublishReturn(t, outcome) ==
    /\ conn = "mqtt"
    /\ threads[t].pc = "sending"
    /\ threads' = [threads EXCEPT ![t].pc = "done",
                                  ![t].atcall = EmptyDict,
                                  ![t].payload = EmptyDict,
                                  ![t].outcome = outcome,
                                  ![t].out = @ \cup MqttPrinted(threads[t].debug, outcome),
                                  ![t].uncaught = MqttUncaught(outcome)]
    /\ UNCHANGED <<conn, phase, self, debug, data, heap, session, connects, wire, last>>

\* what join raises in the caller: nothing, also when the thread died of an exception
JoinError(th) == "none"

\* thread.join(): the caller blocks until the thread has finished, then goes on
Join(t) ==
    /\ Running
    /\ threads[t].pc = "done"
    /\ last' = Call("join", <<Handle(t)>>, NoArg, JoinError(threads[t]))
    /\ UNCHANGED <<conn, phase, self, debug, data, heap, session, connects, threads, wire>>

-----------------------------------------------------------------------------
(* Both connectors with their threads, over the smaller universe *)

Next ==
    \/ \E h \in Hosts, p \in Ports, a \in Tokens, d \in BOOLEAN : HttpConstruct(h, p, a, d)
    \/ \E h \in Hosts, p \in Ports, a \in Tokens, d \in BOOLEAN, o \in ConnectOutcomes :
          MqttConstruct(h, p, a, d, o)
    \/ HttpEnableDebug
    \/ HttpDisableDebug
    \/ \E k \in SendKeys, v \in SendValues : HttpSetSingleData(k, v)
    \/ \E m \in SendMappings : HttpSetMultipleData(m)
    \/ HttpSendTelemetry
    \/ \E t \in ThreadIds : HttpPost(t)
    \/ \E t \in ThreadIds, o \in HttpOutcomes : HttpResponse(t, o)
    \/ MqttEnableDebug
    \/ MqttDisableDebug
    \/ \E k \in SendKeys, v \in SendValues : MqttSetSingleData(k, v)
    \/ \E m \in SendMappings : MqttSetMultipleData(m)
    \/ \E k \in SendKeys : MqttRemoveData(k)
    \/ MqttRemoveAllData(<<NoObj>>)
    \/ MqttSendTelemetry
    \/ \E t \in ThreadIds : MqttPublish(t)
    \/ \E t \in ThreadIds, o \in MqttOutcomes : MqttPublishReturn(t, o)
    \/ \E t \in ThreadIds : Join(t)

Spec == Init /\ [][Next]_vars

\* the thread scheduler runs every started thread, and the transport call returns
\* or raises
Fairness ==
    /\ \A t \in ThreadIds : WF_vars(HttpPost(t))
    /\ \A t \in ThreadIds : WF_vars(\E o \in HttpOutcomes : HttpResponse(t, o))
    /\ \A t \in ThreadIds : WF_vars(MqttPublish(t))
    /\ \A t \in ThreadIds : WF_vars(\E o \in MqttOutcomes : MqttPublishReturn(t, o))

\* Two sends with a buffer change between them, and their threads, under that
\* fairness: the debug flag is the one given at construction
NextSend ==
    \/ \E h \in Hosts, p \in Ports, a \in Tokens, d \in BOOLEAN : HttpConstruct(h, p, a, d)
    \/ \E h \in Hosts, p \in Ports, a \in Tokens, d \in BOOLEAN, o \in ConnectOutcomes :
          MqttConstruct(h, p, a, d, o)
    \/ HttpSetSingleData(K1, VInt)
    \/ HttpSendTelemetry
    \/ \E t \in ThreadIds : HttpPost(t)
    \/ \E t \in ThreadIds, o \in HttpOutcomes : HttpResponse(t, o)
    \/ MqttSetSingleData(K1, VInt)
    \/ MqttSendTelemetry
    \/ \E t \in ThreadIds : MqttPublish(t)
    \/ \E t \in ThreadIds, o \in MqttOutcomes : MqttPublishReturn(t, o)
    \/ \E t \in ThreadIds : Join(t)

FairSpec == Init /\ [][NextSend]_vars /\ Fairness

-----------------------------------------------------------------------------
(* The buffer, as the caller reads it: the contents of the object self.data refers to *)

Buffer == heap[data]
BufferAfter == heap'[data']

\* a mapping argument with string keys and scalar values only
ValidMapping(m) ==
    /\ m.type = "dict"
    /\ \A k \in DOMAIN m.items :
          k.type = "str" /\ m.items[k].type \in {"int", "float", "str", "bool"}

\* key j has the same presence and value in dicts d and e
SameAt(d, e, j) ==
    /\ (j \in DOMAIN d) <=> (j \in DOMAIN e)
    /\ j \in DOMAIN d => d[j] = e[j]

-----------------------------------------------------------------------------
(* C1: on both connectors, after set_single_data(k, v) with a string key and a     *)
(* scalar value has returned, data[k] = v, every other key has the presence and    *)
(* value it had before the call, and on a freshly constructed connector the buffer *)
(* is exactly {k: v}.                                                              *)
C1_SetSingleStores ==
    [][(/\ last'.op = "set_single_data"
        /\ last'.args[1].type = "str"
        /\ last'.args[2].type \in {"int", "float", "str", "bool"})
       => /\ last'.err = "none"
          /\ last'.args[1] \in DOMAIN BufferAfter
          /\ BufferAfter[last'.args[1]] = last'.args[2]
          /\ \A j \in Keys \ {last'.args[1]} : SameAt(Buffer, BufferAfter, j)
          /\ last.op = "__init__" => BufferAfter = (last'.args[1] :> last'.args[2])]_vars

\* a second key was stored while the first one was in the buffer
C1_Witness ==
    /\ conn = "mqtt"
    /\ last = Call("set_single_data", <<K2, VFloat>>, NoArg, "none")
    /\ Buffer = (K1 :> VBool @@ K2 :> VFloat)

(* C2: on both connectors, after set_multiple_data(m) with a valid mapping has     *)
(* returned, the buffer equals m exactly, whatever it held before.                 *)
C2_SetMultipleReplaces ==
    (last.op = "set_multiple_data" /\ ValidMapping(last.m))
        => (last.err = "none" /\ Buffer = last.m.items)

\* the mapping of the tests has replaced a buffer
C2_Witness ==
    /\ conn = "http"
    /\ last = Call("set_multiple_data", << >>, DictArg(K1 :> VFloat @@ K2 :> VInt), "none")
    /\ Buffer = (K1 :> VFloat @@ K2 :> VInt)

(* C3: on Mqtt_Connector, set_single_data with a non-string key or a non-scalar    *)
(* value, and set_multiple_data with a non-mapping or with a mapping holding any   *)
(* non-string key or non-scalar value, raise ValueError and leave the buffer as it *)
(* was: no entry of a partly invalid mapping is stored.                            *)
C3_InvalidRejected ==
    [][(/\ conn = "mqtt"
        /\ \/ /\ last'.op = "set_single_data"
              /\ \/ last'.args[1].type # "str"
                 \/ last'.args[2].type \notin {"int", "float", "str", "bool"}
           \/ /\ last'.op = "set_multiple_data"
              /\ ~ValidMapping(last'.m))
       => /\ last'.err = "ValueError"
          /\ BufferAfter = Buffer]_vars

\* a mapping with one valid and one invalid entry was rejected by a non-empty buffer
C3_Witness ==
    /\ conn = "mqtt"
    /\ last = Call("set_multiple_data", << >>, DictArg(K1 :> VInt @@ K2 :> VList), "ValueError")
    /\ Buffer = (K2 :> VStr)

(* C4: in every reachable state of every connector, every key of the buffer is a   *)
(* string and every value is an int, a float, a str or a bool.                     *)
C4_BufferHoldsScalars ==
    phase = "ready" =>
        \A k \in DOMAIN Buffer :
            k.type = "str" /\ Buffer[k].type \in {"int", "float", "str", "bool"}

(* C5: on Mqtt_Connector, remove_data(k) with a string key in the buffer removes   *)
(* exactly k; with a string key not in the buffer it raises KeyError; with a       *)
(* non-string key it raises ValueError; a failing call leaves the buffer as it was.*)
C5_RemoveData ==
    [][(conn = "mqtt" /\ last'.op = "remove_data")
       => IF last'.args[1].type # "str"
          THEN last'.err = "ValueError" /\ BufferAfter = Buffer
          ELSE IF last'.args[1] \notin DOMAIN Buffer
          THEN last'.err = "KeyError" /\ BufferAfter = Buffer
          ELSE /\ last'.err = "none"
               /\ last'.args[1] \notin DOMAIN BufferAfter
               /\ \A j \in Keys \ {last'.args[1]} : SameAt(Buffer, BufferAfter, j)]_vars

\* one of two keys was removed and the other one is still there
C5_Witness ==
    /\ conn = "mqtt"
    /\ last = Call("remove_data", <<K1>>, NoArg, "none")
    /\ Buffer = (K2 :> VInt)

(* C6: on Mqtt_Connector, remove_all_data called with no argument succeeds from    *)
(* every buffer state and leaves the buffer empty.                                 *)
C6_RemoveAllNoArgument ==
    (last.op = "remove_all_data" /\ last.args = << >>)
        => (last.err = "none" /\ Buffer = EmptyDict)

(* C7: construction raises ValueError, yields no connector and touches no network  *)
(* when host or credential is not a string or the port is not of the transport's   *)
(* kind (str for Http_Connector, int for Mqtt_Connector); with arguments of the    *)
(* right kinds Http_Connector construction succeeds with an empty buffer and       *)
(* without network activity.                                                       *)
WrongKinds(class, args) ==
    \/ args[1].type # "str"
    \/ args[3].type # "str"
    \/ class = "http" /\ args[2].type # "str"
    \/ class = "mqtt" /\ args[2].type # "int"

C7_Construction ==
    [][/\ (phase = "new" /\ WrongKinds(conn', last'.args))
          => /\ phase' = "failed"
             /\ last'.err = "ValueError"
             /\ connects' = 0 /\ wire' = << >>
       /\ (phase = "new" /\ conn' = "http" /\ ~WrongKinds(conn', last'.args))
          => /\ phase' = "ready"
             /\ last'.err = "none"
             /\ BufferAfter = EmptyDict
             /\ connects' = 0 /\ wire' = << >>
       /\ phase = "failed" => UNCHANGED vars]_vars

\* Mqtt_Connector was given True as its port
C7_Witness ==
    /\ conn = "mqtt"
    /\ phase = "failed"
    /\ last = Call("__init__", <<Obj("str", 10), Obj("bool", 1), Obj("str", 20)>>, NoArg, "ValueError")
    /\ connects = 0

-----------------------------------------------------------------------------
\* the threads whose transport call has been made
Transmitted == {wire[i] : i \in 1..Len(wire)}

C9_SendsFinish ==
    /\ \A t \in ThreadIds : (threads[t].pc # "none") ~> (threads[t].pc = "done")
    /\ [][\A t \in ThreadIds :
            (threads[t].pc = "sending" /\ threads'[t] # threads[t])
               => threads'[t].pc = "done"]_vars
    /\ [](\A t \in ThreadIds : threads[t].pc = "done" => ENABLED Join(t))
    /\ [](last.op = "join" => last.err = "none")

\* both threads were joined after transport calls that failed, the buffer having
\* changed between the two sends
C9_Witness ==
    /\ conn = "http"
    /\ threads[1].pc = "done" /\ threads[1].outcome = "OtherException" /\ threads[1].uncaught
    /\ threads[2].pc = "done" /\ threads[2].outcome = "RequestException"
    /\ last = Call("join", <<Handle(2)>>, NoArg, "none")

(* C10: Mqtt_Connector construction with arguments of the right kinds returns a    *)
(* connector whatever the connect attempt does; the attempt is made once, during   *)
(* construction; no later operation connects again or changes the session, so a    *)
(* failed session stays failed; and a started thread makes its publish call in     *)
(* every session state.                                                            *)
C10_ConnectOnce ==
    /\ [][(phase = "new" /\ conn' = "mqtt" /\ ~WrongKinds("mqtt", last'.args))
             => (phase' = "ready" /\ last'.err = "none" /\ connects' = 1
                 /\ session' \in {"Connected", "Failed"})]_vars
    /\ [][phase # "new" => (connects' = connects /\ session' = session)]_vars
    /\ []((conn = "mqtt" /\ phase = "ready") => connects = 1)
    /\ [](conn = "mqtt" =>
             \A t \in ThreadIds :
                 /\ threads[t].pc = "spawned" => ENABLED MqttPublish(t)
                 /\ threads[t].pc \in {"sending", "done"} => t \in Transmitted)

\* a connector whose connect attempt failed has published
C10_Witness ==
    /\ conn = "mqtt"
    /\ session = "Failed"
    /\ connects = 1
    /\ threads[1].pc = "done"
    /\ 1 \in Transmitted

-----------------------------------------------------------------------------
\* the failures the transport reports by its result, and those it raises and the
\* thread catches
ResultFailures == {"404", "NO_CONN", "QUEUE_SIZE", "UNKNOWN"}
CaughtFailures == {"RequestException", "Exception"}

(* C11, as stated: a thread whose send_telemetry call was made with debug disabled *)
(* prints nothing when its transport call fails, by an exception or by a failing   *)
(* result.                                                                         *)
C11_SilentWithoutDebug ==
    \A t \in ThreadIds :
        (/\ threads[t].pc = "done"
         /\ ~threads[t].debug
         /\ threads[t].outcome \in ResultFailures \cup CaughtFailures)
            => threads[t].out = {}

(* C11, amended: a thread whose send_telemetry call was made with debug disabled   *)
(* prints nothing when the transport reports the failure by its result (a non-200  *)
(* status, a failing queuing result), so that output about such a failure means    *)
(* that debug was enabled at the call; an exception the thread catches is printed  *)
(* whatever the debug flag was.                                                    *)
C11_SilentUnlessException ==
    \A t \in ThreadIds :
        threads[t].pc = "done" =>
            /\ (~threads[t].debug /\ threads[t].outcome \in ResultFailures)
                   => threads[t].out = {}
            /\ (threads[t].outcome \in ResultFailures /\ threads[t].out # {})
                   => threads[t].debug
            /\ threads[t].outcome \in CaughtFailures
                   => "exception" \in threads[t].out
            /\ (~threads[t].debug /\ threads[t].outcome \in CaughtFailures)
                   => threads[t].out = {"exception"}

\* a send made with debug disabled got a 404 after debug had been enabled, and
\* another one, made with debug enabled, got a 404 too
C11_Witness ==
    /\ conn = "http"
    /\ debug
    /\ threads[1].pc = "done" /\ ~threads[1].debug
    /\ threads[1].outcome = "404" /\ threads[1].out = {}
    /\ threads[2].pc = "done" /\ threads[2].debug
    /\ threads[2].outcome = "404" /\ "error" \in threads[2].out

(* C12: the payload a thread transmits is the buffer as it was when its            *)
(* send_telemetry call was made, whatever the caller did to the buffer between     *)
(* the call and the transport call.                                                *)
C12_PayloadIsSnapshot ==
    \A t \in ThreadIds :
        threads[t].pc = "sending" => threads[t].payload = threads[t].atcall

-----------------------------------------------------------------------------
\* the threads that have been started, and how often thread t called its transport
Started == {t \in ThreadIds : threads[t].pc # "none"}
Attempts(t) == Cardinality({i \in 1..Len(wire) : wire[i] = t})

-----------------------------------------------------------------------------
\* what a started thread that has not serialized yet would transmit now: the
\* contents of the dict object it holds
Pending(t) == threads[t].pc = "spawned"
View(t) == heap[threads[t].ref]
ViewAfter(t) == heap'[threads'[t].ref]

\* a step of the caller that is a call of one of these operations and succeeded
CallerDid(ops) ==
    /\ vars' # vars
    /\ \A t \in ThreadIds : threads'[t].pc = threads[t].pc
    /\ last'.op \in ops /\ last'.err = "none"

(* C14: a thread is given the dict object that is the buffer when send_telemetry   *)
(* is called and transmits the contents that object has when the thread            *)
(* serializes; until then a change the caller makes in place (set_single_data,     *)
(* remove_data) to that object is what the thread will transmit, whereas after a   *)
(* wholesale replacement (set_multiple_data, remove_all_data) the thread holds the *)
(* old object, whose contents neither the replacement nor a later change of the    *)
(* new buffer touches.                                                             *)
C14_TransmitsSharedObject ==
    /\ [][\A t \in ThreadIds :
            (threads[t].pc = "none" /\ threads'[t].pc # "none")
               => /\ threads'[t].ref = data'
                  /\ ViewAfter(t) = Buffer
                  /\ threads'[t].atcall = Buffer]_vars
    /\ [][\A t \in ThreadIds :
            (Pending(t) /\ threads'[t].pc = "sending")
               => threads'[t].payload = View(t)]_vars
    /\ [][CallerDid({"set_single_data", "remove_data"})
             => \A t \in ThreadIds :
                   Pending(t) =>
                      /\ (threads'[t].ref = data') = (threads[t].ref = data)
                      /\ ViewAfter(t) = IF threads[t].ref = data THEN BufferAfter ELSE View(t)]_vars
    /\ [][CallerDid({"set_multiple_data", "remove_all_data"})
             => \A t \in ThreadIds :
                   Pending(t) =>
                      /\ threads'[t].ref # data'
                      /\ ViewAfter(t) = View(t)]_vars
    /\ [][\A t \in ThreadIds :
            (Pending(t) /\ threads'[t].pc = "spawned" /\ threads[t].ref # data)
               => ViewAfter(t) = View(t)]_vars

\* the first publish carries a value set after its send_telemetry call; the second
\* one carries the mapping that remove_all_data replaced before it was serialized
C14_Witness ==
    /\ conn = "mqtt"
    /\ threads[1].pc = "sending"
    /\ threads[1].atcall = EmptyDict /\ threads[1].payload = (K1 :> VInt)
    /\ threads[2].pc = "sending"
    /\ threads[2].atcall = (K1 :> VInt) /\ threads[2].payload = (K1 :> VInt)
    /\ Buffer = EmptyDict
    /\ last.op = "remove_all_data"

-----------------------------------------------------------------------------
(* C15: nothing orders the transport calls of two sends except the caller's join:  *)
(* a started thread can make its transport call whatever the other threads are     *)
(* doing, so the thread of a later send can make its call before the thread of an  *)
(* earlier one; it does so only while the earlier thread has not made its call,    *)
(* hence is unfinished and unjoined; a thread that had finished, as a joined one   *)
(* has, when the next send was made has made its call already, and calls are       *)
(* recorded in the order they are made.                                            *)
C15_OrderOnlyByJoin ==
    /\ [](\A t \in ThreadIds :
             Pending(t) => /\ conn = "http" => ENABLED HttpPost(t)
                           /\ conn = "mqtt" => ENABLED MqttPublish(t))
    /\ [][\/ wire' = wire
          \/ \E t \in ThreadIds : Pending(t) /\ wire' = Append(wire, t)]_vars
    /\ [][\A t \in ThreadIds : \A u \in 1..(t - 1) :
            (wire' = Append(wire, t) /\ u \notin Transmitted)
               => /\ threads[u].pc = "spawned"
                  /\ ~(last.op = "join" /\ last.args = <<Handle(u)>>)]_vars
    /\ [][\A t \in ThreadIds :
            (threads[t].pc = "none" /\ threads'[t].pc # "none")
               => /\ t \notin {wire'[i] : i \in 1..Len(wire')}
                  /\ \A u \in ThreadIds :
                        threads[u].pc = "done" => u \in Transmitted]_vars
    /\ [](last.op = "join" => last.args[1].val \in Transmitted)

\* two sends were made without a join, and the request of the second one was made
\* before the request of the first
C15_Witness ==
    /\ wire = <<2, 1>>
    /\ threads[1].pc = "sending"
    /\ threads[2].pc = "done"
    /\ last = Call("send_telemetry", <<Handle(2)>>, NoArg, "none")

====
